---- MODULE Spec2Model ----
(***************************************************************************)
(* Model of convert_pdfs_to_markdown.py: main() discovers the input files, *)
(* opens one shared client session, runs one process_file task per file    *)
(* under asyncio.Semaphore(10), and prints a summary.                      *)
(*                                                                         *)
(* Strings that the code inspects (file names, extensions) are sequences   *)
(* of one-character strings.  asyncio tasks are cooperative: a task runs   *)
(* from one await to the next without interleaving, so each action below   *)
(* is the code between two suspension points.                              *)
(***************************************************************************)
EXTENDS Integers, Sequences, FiniteSets, Bags, TLC

\* ------------------------------------------------------------------ bounds
\* largest input directory drawn by Init
MaxFiles == 3
\* size of the directory of InitBig (more files than permits)
NumBigFiles == 11

\* ------------------------------------------------------- program constants
ConcurrencyLimit == 10
MaxErrorLen == 200

\* --------------------------------------------------------------- strings
LowerLetters ==
  <<"a","b","c","d","e","f","g","h","i","j","k","l","m",
    "n","o","p","q","r","s","t","u","v","w","x","y","z">>
UpperLetters ==
  <<"A","B","C","D","E","F","G","H","I","J","K","L","M",
    "N","O","P","Q","R","S","T","U","V","W","X","Y","Z">>

\* str.upper() / str.lower(), character by character
UpperChar(c) ==
  IF \E i \in DOMAIN LowerLetters : LowerLetters[i] = c
    THEN UpperLetters[CHOOSE i \in DOMAIN LowerLetters : LowerLetters[i] = c]
    ELSE c
LowerChar(c) ==
  IF \E i \in DOMAIN UpperLetters : UpperLetters[i] = c
    THEN LowerLetters[CHOOSE i \in DOMAIN UpperLetters : UpperLetters[i] = c]
    ELSE c
Upper(s) == [i \in DOMAIN s |-> UpperChar(s[i])]
Lower(s) == [i \in DOMAIN s |-> LowerChar(s[i])]

EndsWith(s, suffix) ==
  /\ Len(s) >= Len(suffix)
  /\ SubSeq(s, Len(s) - Len(suffix) + 1, Len(s)) = suffix

\* str.rfind("."): the last index of a dot, 0 when there is none
RFindDot(s) ==
  IF \E i \in DOMAIN s : s[i] = "."
    THEN CHOOSE i \in DOMAIN s : s[i] = "." /\ \A j \in DOMAIN s : j > i => s[j] # "."
    ELSE 0

\* PurePath.suffix: the part from the last dot on, empty when the dot is the
\* first or the last character of the name
Suffix(name) ==
  LET i == RFindDot(name)
  IN  IF 1 < i /\ i < Len(name) THEN SubSeq(name, i, Len(name)) ELSE <<>>

\* PurePath.stem: the name without its suffix
Stem(name) ==
  LET i == RFindDot(name)
  IN  IF 1 < i /\ i < Len(name) THEN SubSeq(name, 1, i - 1) ELSE name

\* ------------------------------------------------------------ file names
PdfExt == <<".", "p", "d", "f">>
EpubExt == <<".", "e", "p", "u", "b">>
HtmlExt == <<".", "h", "t", "m", "l">>
HtmExt == <<".", "h", "t", "m">>

\* names an input directory of Init is drawn from
Names ==
  { <<"a">> \o PdfExt, <<"a">> \o Upper(PdfExt), <<"b">> \o <<".", "P", "d", "f">>,
    <<"a">> \o EpubExt, <<"c">> \o Upper(HtmExt), <<"d", ".", "t", "x", "t">> }

\* the names among them that some selector matches on every platform
BatchNames == { n \in Names : Suffix(n) \in {PdfExt, Upper(PdfExt), EpubExt, Upper(HtmExt)} }

StemChars == <<"g","i","j","k","n","o","q","r","s","v","w","y","z">>
BigName(i) == <<StemChars[i]>> \o PdfExt
BigDir == { BigName(i) : i \in 1..NumBigFiles }

AllNames == Names \cup BigDir
AllStems == { Stem(n) : n \in AllNames }

Formats == {"pdf", "epub", "html", "all"}

\* ----------------------------------------------------------- environment
Unset == "<unset>"
Placeholder == "your_api_key_here"
KeyValues == {Unset, "", Placeholder, "key"}

\* Python truthiness of an os.getenv() result (None and "" are falsy)
Truthy(v) == v # Unset /\ v # ""
PyOr(a, b) == IF Truthy(a) THEN a ELSE b

\* api_key = os.getenv("DATALAB_API_KEY") or os.getenv("MARKER_PDF_KEY")
ApiKey(env) == PyOr(env.DATALAB_API_KEY, env.MARKER_PDF_KEY)

\* a check that only rejects a missing key
KeyRejectedMissingOnly(k) == ~Truthy(k)

\* if not api_key or api_key in ("your_api_key_here", ""):
KeyRejected(k) == ~Truthy(k) \/ k \in {Placeholder, ""}

\* ------------------------------------------------------------- discovery
\* the extension list main() builds for args.format
Extensions(format) ==
  CASE format = "all"  -> <<PdfExt, EpubExt, HtmlExt, HtmExt>>
    [] format = "epub" -> <<EpubExt>>
    [] format = "html" -> <<HtmlExt, HtmExt>>
    [] OTHER           -> <<PdfExt>>

\* Path.glob("*" + ext): the entries of the directory whose name ends with
\* ext; the match is case-sensitive on posix and case-insensitive on nt
Glob(listing, ext, os) ==
  IF os = "nt"
    THEN { n \in listing : EndsWith(Lower(n), Lower(ext)) }
    ELSE { n \in listing : EndsWith(n, ext) }

\* the loop of main(): the list is extended by glob(ext) and glob(ext.upper())
RECURSIVE ExtendAll(_, _, _, _)
ExtendAll(found, exts, listing, os) ==
  IF exts = <<>> THEN found
  ELSE ExtendAll(found (+) SetToBag(Glob(listing, Head(exts), os))
                       (+) SetToBag(Glob(listing, Upper(Head(exts)), os)),
                 Tail(exts), listing, os)

\* files_to_convert = list(set(files_to_convert))
Discover(listing, format, os) ==
  BagToSet(ExtendAll(EmptyBag, Extensions(format), listing, os))

\* ------------------------------------------------- results and messages
\* a message is its text and its length in characters
SkippedMsg == [text |-> "Skipped (exists)", len |-> 16]
ConvertedMsg == [text |-> "Converted", len |-> 9]
NoMarkdownError == [text |-> "No markdown content returned from Datalab API", len |-> 45]

\* the message kept at its full length
TruncateNot(e) == e

\* str(e)[:200]
Truncate(e) == [e EXCEPT !.len = IF e.len > MaxErrorLen THEN MaxErrorLen ELSE e.len]

NoResult == [success |-> FALSE, name |-> <<>>, msg |-> [text |-> "", len |-> 0]]
\* the tuples process_file returns
SkippedResult(f) == [success |-> TRUE, name |-> f, msg |-> SkippedMsg]
ConvertedResult(f) == [success |-> TRUE, name |-> f, msg |-> ConvertedMsg]
FailedResult(f, e) == [success |-> FALSE, name |-> f, msg |-> Truncate(e)]

\* ------------------------------------------ the remote service and the disk
None == <<"None">>
NoFile == <<"no file">>
OldText == <<"old">>
\* the Markdown the service produces for a document
Text(f) == <<"md">> \o f

ErrLens == {40, 201}
RemoteErrors == { [text |-> "remote error", len |-> l] : l \in ErrLens }
DiskError == [text |-> "OSError", len |-> 34]

\* replies of the remote service: a result carrying Markdown, a result with
\* an empty markdown attribute, a result without the attribute, an exception
Replies(f) ==
  { [kind |-> "result", markdown |-> Text(f)],
    [kind |-> "result", markdown |-> <<>>],
    [kind |-> "result"] }
  \cup { [kind |-> "raise", error |-> e] : e \in RemoteErrors }

\* what client.convert may do for a document: anything for the documents of
\* Names; the documents of BigDir each have one fixed behaviour
ServiceReplies(f) ==
  IF f \in Names THEN Replies(f)
  ELSE CASE f = BigName(1) -> {[kind |-> "raise", error |-> [text |-> "remote error", len |-> 201]]}
         [] f = BigName(2) -> {[kind |-> "result", markdown |-> <<>>]}
         [] f = BigName(3) -> {[kind |-> "result"]}
         [] OTHER          -> {[kind |-> "result", markdown |-> Text(f)]}

\* what mkdir + write_text may do: succeed, fail before the file is opened,
\* or fail after the file was opened for writing and `kept` items were written
WriteOutcomes ==
  {[kind |-> "ok"], [kind |-> "open_error"], [kind |-> "write_error", kept |-> 1]}
DiskOutcomes(f) ==
  IF f \in Names THEN WriteOutcomes
  ELSE CASE f = BigName(4) -> {[kind |-> "write_error", kept |-> 0]}
         [] f = BigName(5) -> {[kind |-> "open_error"]}
         [] OTHER          -> {[kind |-> "ok"]}

\* getattr(result, "markdown", None)
GetMarkdown(r) == IF "markdown" \in DOMAIN r THEN r.markdown ELSE None
\* a test that only rejects a missing attribute
FalsyNoneOnly(v) == v = None

\* not markdown_content
Falsy(v) == v = None \/ v = <<>>

\* ------------------------------------------------------------------ state
VARIABLES
  environ,          \* os.environ: the two key variables
  os,               \* "posix" or "nt": how glob compares names
  listing,          \* names of the files in the input directory
  format,           \* args.format
  outdir,           \* TRUE when the output directory exists
  outfs,            \* stem -> content of <output>/<stem>.md, or NoFile
  pcMain,           \* position of main()
  exitStatus,       \* process exit status, -1 while running
  files_to_convert, \* the deduplicated list of main()
  semaphore,        \* free permits of asyncio.Semaphore(10)
  session,          \* "none", "open", "closed": the AsyncDatalabClient context
  pc,               \* file -> position of its process_file task
  result,           \* file -> value its task returned
  results,          \* what asyncio.gather returned (file -> result)
  pbar,             \* number of pbar.update(1) calls
  summary,          \* the printed counts
  run,              \* 1 in the first run of the program, 2 in the second
  \* history of the current run, read by the properties only
  outfs0,           \* outfs when the run started
  called,           \* files client.convert was called for
  reply,            \* file -> what client.convert answered
  wrote,            \* file -> number of write_text calls of its task
  madeDirs,         \* os.makedirs(args.output) was executed
  opened,           \* times the client session was entered
  closed,           \* times the client session was left
  prevAllOk         \* the previous run ended with every job successful

vars == <<environ, os, listing, format, outdir, outfs, pcMain, exitStatus,
          files_to_convert, semaphore, session, pc, result, results, pbar,
          summary, run, outfs0, called, reply, wrote, madeDirs, opened,
          closed, prevAllOk>>

inputs == <<environ, os, listing, format>>
history == <<outfs0, called, reply, wrote, madeDirs, opened, closed, prevAllOk>>

NoReply == [kind |-> "none"]
NoSummary == [successful |-> -1, failed |-> -1, total |-> -1]

\* the state of main() before its first statement
Fresh ==
  /\ pcMain = "start"
  /\ exitStatus = -1
  /\ files_to_convert = {}
  /\ semaphore = 0
  /\ session = "none"
  /\ pc = [f \in AllNames |-> "none"]
  /\ result = [f \in AllNames |-> NoResult]
  /\ results = << >>
  /\ pbar = 0
  /\ summary = NoSummary
  /\ outfs0 = outfs
  /\ called = {}
  /\ reply = [f \in AllNames |-> NoReply]
  /\ wrote = [f \in AllNames |-> 0]
  /\ madeDirs = FALSE
  /\ opened = 0
  /\ closed = 0

GoodEnv == [DATALAB_API_KEY |-> "key", MARKER_PDF_KEY |-> Unset]
Envs == [DATALAB_API_KEY : KeyValues, MARKER_PDF_KEY : KeyValues]

\* directories a file system of the platform can hold: on nt two names that
\* differ only in case are the same file
Dirs(platform) ==
  { d \in SUBSET Names :
      /\ Cardinality(d) <= MaxFiles
      /\ platform = "nt" => \A m, n \in d : Lower(m) = Lower(n) => m = n }

\* output directories: some of the inputs' .md files are already there
OutDirs(d) ==
  { [s \in AllStems |-> IF s \in old THEN OldText ELSE NoFile] :
      old \in SUBSET { Stem(n) : n \in d } }

\* ------------------------------------------------------------------- Init
\* runs with a configured key over the directories of matching files, with
\* some of the outputs already there
InitBatch ==
  /\ environ = GoodEnv
  /\ os = "posix"
  /\ format \in Formats
  /\ listing \in { d \in Dirs(os) : d \subseteq BatchNames }
  /\ outfs \in OutDirs(listing)
  /\ outdir = (\E s \in AllStems : outfs[s] # NoFile)

\* runs over every directory on both platforms, with every output already
\* there
InitDiscovery ==
  /\ environ = GoodEnv
  /\ os \in {"posix", "nt"}
  /\ format \in Formats
  /\ listing \in Dirs(os)
  /\ outfs = [s \in AllStems |-> IF s \in { Stem(n) : n \in Names } THEN OldText ELSE NoFile]
  /\ outdir = TRUE

\* runs with every setting of the two key variables
InitConfig ==
  /\ environ \in Envs
  /\ os = "posix"
  /\ format = "pdf"
  /\ listing = { <<"a">> \o PdfExt, <<"a">> \o Upper(PdfExt) }
  /\ outfs = [s \in AllStems |-> NoFile]
  /\ outdir = FALSE

\* a directory with more files than permits
InitBig ==
  /\ environ = GoodEnv
  /\ os = "posix"
  /\ format = "pdf"
  /\ listing = BigDir
  /\ outfs = [s \in AllStems |-> NoFile]
  /\ outdir = FALSE

Init == (InitBatch \/ InitDiscovery \/ InitConfig \/ InitBig) /\ Fresh /\ run = 1 /\ prevAllOk = FALSE

\* ----------------------------------------------------------------- main()
\* lines 121-135: resolve the key, exit(1) when it is missing or a placeholder
CheckKey ==
  /\ pcMain = "start"
  /\ LET api_key == ApiKey(environ)
     IN  IF KeyRejected(api_key)
           THEN /\ pcMain' = "exit"
                /\ exitStatus' = 1
                /\ UNCHANGED environ
           ELSE /\ environ' = [environ EXCEPT !.DATALAB_API_KEY = api_key]
                /\ pcMain' = "makedirs"
                /\ UNCHANGED exitStatus
  /\ UNCHANGED <<os, listing, format, outdir, outfs, files_to_convert, semaphore,
                 session, pc, result, results, pbar, summary, run, history>>

\* line 138: os.makedirs(args.output, exist_ok=True)
MakeDirs ==
  /\ pcMain = "makedirs"
  /\ outdir' = TRUE
  /\ madeDirs' = TRUE
  /\ pcMain' = "discover"
  /\ UNCHANGED <<inputs, outfs, exitStatus, files_to_convert, semaphore, session,
                 pc, result, results, pbar, summary, run, outfs0, called, reply,
                 wrote, opened, closed, prevAllOk>>

\* a discovery that goes on with an empty list
DiscoverFilesNoReturn ==
  /\ pcMain = "discover"
  /\ files_to_convert' = Discover(listing, format, os)
  /\ pcMain' = "setup"
  /\ UNCHANGED <<inputs, outdir, outfs, exitStatus, semaphore, session, pc, result,
                 results, pbar, summary, run, history>>

\* lines 145-170: build the file list; return when it is empty
DiscoverFiles ==
  /\ pcMain = "discover"
  /\ files_to_convert' = Discover(listing, format, os)
  /\ IF files_to_convert' = {}
       THEN pcMain' = "done" /\ exitStatus' = 0
       ELSE pcMain' = "setup" /\ UNCHANGED exitStatus
  /\ UNCHANGED <<inputs, outdir, outfs, semaphore, session, pc, result, results,
                 pbar, summary, run, history>>

\* lines 174-177: the semaphore and the progress bar
Setup ==
  /\ pcMain = "setup"
  /\ semaphore' = ConcurrencyLimit
  /\ pbar' = 0
  /\ pcMain' = "enter"
  /\ UNCHANGED <<inputs, outdir, outfs, exitStatus, files_to_convert, session, pc,
                 result, results, summary, run, history>>

\* line 180: async with AsyncDatalabClient(api_key=api_key) as client
OpenSession ==
  /\ pcMain = "enter"
  /\ session' = "open"
  /\ opened' = opened + 1
  /\ pcMain' = "tasks"
  /\ UNCHANGED <<inputs, outdir, outfs, exitStatus, files_to_convert, semaphore, pc,
                 result, results, pbar, summary, run, outfs0, called, reply, wrote,
                 madeDirs, closed, prevAllOk>>

\* lines 181-186: one coroutine per file, handed to asyncio.gather, which
\* schedules one task per coroutine
Gather ==
  /\ pcMain = "tasks"
  /\ pc' = [f \in AllNames |-> IF f \in files_to_convert THEN "created" ELSE pc[f]]
  /\ pcMain' = "gather"
  /\ UNCHANGED <<inputs, outdir, outfs, exitStatus, files_to_convert, semaphore,
                 session, result, results, pbar, summary, run, history>>

\* a gather that returns with the first task that has returned
GatherReturnsEarly ==
  /\ pcMain = "gather"
  /\ \E f \in files_to_convert : pc[f] = "done"
  /\ results' = [f \in files_to_convert |-> result[f]]
  /\ pcMain' = "leave"
  /\ UNCHANGED <<inputs, outdir, outfs, exitStatus, files_to_convert, semaphore,
                 session, pc, result, pbar, summary, run, history>>

\* line 186: gather returns once every task has returned
GatherReturns ==
  /\ pcMain = "gather"
  /\ \A f \in files_to_convert : pc[f] = "done"
  /\ results' = [f \in files_to_convert |-> result[f]]
  /\ pcMain' = "leave"
  /\ UNCHANGED <<inputs, outdir, outfs, exitStatus, files_to_convert, semaphore,
                 session, pc, result, pbar, summary, run, history>>

\* the end of the async with block of line 180
CloseSession ==
  /\ pcMain = "leave"
  /\ session' = "closed"
  /\ closed' = closed + 1
  /\ pcMain' = "summary"
  /\ UNCHANGED <<inputs, outdir, outfs, exitStatus, files_to_convert, semaphore, pc,
                 result, results, pbar, summary, run, outfs0, called, reply, wrote,
                 madeDirs, opened, prevAllOk>>

\* a tally that leaves the skipped jobs out
SuccessfulConvertedOnly(rs) == { f \in DOMAIN rs : rs[f].success /\ rs[f].msg.text = "Converted" }

\* lines 190-191
Successful(rs) == { f \in DOMAIN rs : rs[f].success }
Failed(rs) == { f \in DOMAIN rs : ~rs[f].success }

\* lines 188-207: the summary; main() returns and the process exits with 0
Summary ==
  /\ pcMain = "summary"
  /\ summary' = [successful |-> Cardinality(Successful(results)),
                 failed     |-> Cardinality(Failed(results)),
                 total      |-> Cardinality(files_to_convert)]
  /\ pcMain' = "done"
  /\ exitStatus' = 0
  /\ UNCHANGED <<inputs, outdir, outfs, files_to_convert, semaphore, session, pc,
                 result, results, pbar, run, history>>

\* the program is started a second time over the same directories
Rerun ==
  /\ pcMain \in {"done", "exit"}
  /\ run = 1
  /\ run' = 2
  /\ prevAllOk' = (pcMain = "done" /\ \A f \in files_to_convert : result[f].success)
  /\ pcMain' = "start"
  /\ exitStatus' = -1
  /\ files_to_convert' = {}
  /\ semaphore' = 0
  /\ session' = "none"
  /\ pc' = [f \in AllNames |-> "none"]
  /\ result' = [f \in AllNames |-> NoResult]
  /\ results' = << >>
  /\ pbar' = 0
  /\ summary' = NoSummary
  /\ outfs0' = outfs
  /\ called' = {}
  /\ reply' = [f \in AllNames |-> NoReply]
  /\ wrote' = [f \in AllNames |-> 0]
  /\ madeDirs' = FALSE
  /\ opened' = 0
  /\ closed' = 0
  /\ UNCHANGED <<inputs, outdir, outfs>>

\* ---------------------------------------------------------- process_file
\* an entry that takes no permit
AcquireFree(v) == v

\* an exit that gives back two permits
ReleaseTwice(v) == v + 2
\* an exit that keeps the permit
ReleaseNot(v) == v

\* async with semaphore: acquire on entry, release on every exit
Acquire(v) == v - 1
Release(v) == v + 1

\* markdown_file = Path(args.output) / f"{file_path.stem}.md"
MarkdownFile(f) == Stem(f)
\* an existence check that never finds the file
ExistsNever(fs, f) == FALSE

\* markdown_file.exists()
Exists(fs, f) == fs[MarkdownFile(f)] # NoFile

\* a write that does not reach the output path
WriteTextLost(fs, f, text, w) == fs

\* mkdir(parents=True, exist_ok=True) and write_text(markdown_content)
WriteText(fs, f, text, w) ==
  CASE w.kind = "ok"          -> [fs EXCEPT ![MarkdownFile(f)] = text]
    [] w.kind = "write_error" -> [fs EXCEPT ![MarkdownFile(f)] = SubSeq(text, 1, w.kept)]
    [] OTHER                  -> fs

\* asyncio.gather queues the first step of every task before main() yields
\* to the event loop, and the loop runs what is queued before it polls the
\* network: a task suspended in client.convert is resumed with a reply only
\* after every task had its first step
AllStarted == \A g \in files_to_convert : pc[g] # "created"

\* lines 74-96 with a permit: skip when the output exists, else call the
\* service and suspend in client.convert
Enter(f) ==
  IF Exists(outfs, f)
    THEN /\ result' = [result EXCEPT ![f] = SkippedResult(f)]
         /\ pc' = [pc EXCEPT ![f] = "done"]
         /\ pbar' = pbar + 1
         /\ semaphore' = Release(Acquire(semaphore))
         /\ UNCHANGED called
    ELSE /\ pc' = [pc EXCEPT ![f] = "awaiting"]
         /\ semaphore' = Acquire(semaphore)
         /\ called' = called \cup {f}
         /\ UNCHANGED <<result, pbar>>

\* first step of a task: take a permit, or wait for one
Start(f) ==
  /\ pcMain = "gather"
  /\ pc[f] = "created"
  /\ IF semaphore > 0
       THEN Enter(f)
       ELSE /\ pc' = [pc EXCEPT ![f] = "waiting"]
            /\ UNCHANGED <<result, pbar, semaphore, called>>
  /\ UNCHANGED <<inputs, outdir, outfs, pcMain, exitStatus, files_to_convert,
                 session, results, summary, run, outfs0, reply, wrote, madeDirs,
                 opened, closed, prevAllOk>>

\* a task waiting in semaphore.acquire() is resumed when a permit is free
Wake(f) ==
  /\ pcMain = "gather"
  /\ pc[f] = "waiting"
  /\ semaphore > 0
  /\ Enter(f)
  /\ UNCHANGED <<inputs, outdir, outfs, pcMain, exitStatus, files_to_convert,
                 session, results, summary, run, outfs0, reply, wrote, madeDirs,
                 opened, closed, prevAllOk>>

\* the task of f gets the answer r of client.convert and runs to its return
\* (lines 98-114) with result res, leaving the output directory as fs after
\* `writes` calls of write_text
Finish(f, r, res, fs, writes) ==
  /\ pcMain = "gather"
  /\ pc[f] = "awaiting"
  /\ r \in ServiceReplies(f)
  /\ reply' = [reply EXCEPT ![f] = r]
  /\ result' = [result EXCEPT ![f] = res]
  /\ outfs' = fs
  /\ wrote' = [wrote EXCEPT ![f] = wrote[f] + writes]
  /\ pc' = [pc EXCEPT ![f] = "done"]
  /\ pbar' = pbar + 1
  /\ semaphore' = Release(semaphore)
  /\ UNCHANGED <<inputs, outdir, pcMain, exitStatus, files_to_convert, session,
                 results, summary, run, outfs0, called, madeDirs, opened, closed,
                 prevAllOk>>

\* client.convert raises: lines 110-114.  The client may raise before it
\* ever suspends, so this needs no reply from the network.
ConvertRaises(f) ==
  \E r \in ServiceReplies(f) :
    /\ r.kind = "raise"
    /\ Finish(f, r, FailedResult(f, r.error), outfs, 0)

\* client.convert returns no Markdown: lines 98-100, then 110-114
ConvertEmpty(f) ==
  \E r \in ServiceReplies(f) :
    /\ AllStarted
    /\ r.kind = "result"
    /\ Falsy(GetMarkdown(r))
    /\ Finish(f, r, FailedResult(f, NoMarkdownError), outfs, 0)

\* client.convert returns Markdown and the file is written: lines 98-108
ConvertWrites(f) ==
  \E r \in ServiceReplies(f) :
    /\ AllStarted
    /\ r.kind = "result"
    /\ ~Falsy(GetMarkdown(r))
    /\ [kind |-> "ok"] \in DiskOutcomes(f)
    /\ Finish(f, r, ConvertedResult(f),
              WriteText(outfs, f, GetMarkdown(r), [kind |-> "ok"]), 1)

\* client.convert returns Markdown and mkdir or write_text raises: lines
\* 98-104, then 110-114
WriteFails(f) ==
  \E r \in ServiceReplies(f), w \in DiskOutcomes(f) :
    /\ AllStarted
    /\ r.kind = "result"
    /\ ~Falsy(GetMarkdown(r))
    /\ w.kind # "ok"
    /\ Finish(f, r, FailedResult(f, DiskError),
              WriteText(outfs, f, GetMarkdown(r), w), 1)

\* ------------------------------------------------------------------- Next
Next ==
  \/ CheckKey
  \/ MakeDirs
  \/ DiscoverFiles
  \/ Setup
  \/ OpenSession
  \/ Gather
  \/ \E f \in AllNames : Start(f)
  \/ \E f \in AllNames : Wake(f)
  \/ \E f \in AllNames : ConvertRaises(f)
  \/ \E f \in AllNames : ConvertEmpty(f)
  \/ \E f \in AllNames : ConvertWrites(f)
  \/ \E f \in AllNames : WriteFails(f)
  \/ GatherReturns
  \/ CloseSession
  \/ Summary
  \/ Rerun

Spec == Init /\ [][Next]_vars

\* ---------------------------------------------------------------- fairness
\* asyncio.run drives main() and the tasks: while main() or some task can
\* run, one does; while calls of client.convert are pending, one of them
\* ends.  Nobody has to run the program again.
MainStep ==
  \/ CheckKey \/ MakeDirs \/ DiscoverFiles \/ Setup \/ OpenSession \/ Gather
  \/ GatherReturns \/ CloseSession \/ Summary
TaskStep == \E f \in AllNames : Start(f) \/ Wake(f)
ReplyStep ==
  \E f \in AllNames :
    ConvertRaises(f) \/ ConvertEmpty(f) \/ ConvertWrites(f) \/ WriteFails(f)
Fairness == WF_vars(MainStep \/ TaskStep \/ ReplyStep)

\* the runs over the directory with more files than permits, and the runs
\* with every setting of the key variables
InitFair == (InitBig \/ InitConfig) /\ Fresh /\ run = 1 /\ prevAllOk = FALSE
FairSpec == InitFair /\ [][Next]_vars /\ Fairness

\* ============================================================ properties
Awaiting == { f \in AllNames : pc[f] = "awaiting" }
Waiting == { f \in AllNames : pc[f] = "waiting" }
MdFiles == { s \in AllStems : outfs[s] # NoFile }
ExistedAtStart(f) == outfs0[Stem(f)] # NoFile
IsSkipped(r) == r.success /\ r.msg.text = "Skipped (exists)"
IsConverted(r) == r.success /\ r.msg.text = "Converted"
BatchOver == pcMain = "done" /\ summary # NoSummary

\* C1: a job whose output file existed when the run started is never sent to
\* the remote service, its file keeps its content, its result is the success
\* "Skipped (exists)", and the summary counts it as successful.
C1_SkipsExistingOutput ==
  \A f \in files_to_convert :
    ExistedAtStart(f) =>
      /\ f \notin called
      /\ pc[f] # "awaiting"
      /\ outfs[Stem(f)] = outfs0[Stem(f)]
      /\ pc[f] = "done" =>
           /\ result[f].success
           /\ result[f].name = f
           /\ result[f].msg.text = "Skipped (exists)"
      /\ BatchOver =>
           /\ IsSkipped(results[f])
           /\ summary.successful >=
                Cardinality({ g \in files_to_convert : ExistedAtStart(g) })

C1_Witness ==
  /\ BatchOver
  /\ \E f, g \in files_to_convert :
       /\ ExistedAtStart(f) /\ IsSkipped(results[f])
       /\ ~ExistedAtStart(g) /\ g \in called /\ IsConverted(results[g])

\* C2: at most 10 jobs are awaiting client.convert at the same time, however
\* many files were discovered.
C2_AtMostTenAwaiting == Cardinality(Awaiting) <= 10

C2_Witness ==
  /\ Cardinality(files_to_convert) > 10
  /\ Cardinality(Awaiting) = 10
  /\ Waiting # {}

\* C3: a job whose remote call raised is a failure with a message of at most
\* 200 characters; the batch is not aborted by it: while tasks run some step
\* stays possible, the run never ends with an error status, and it reaches
\* the summary only with a result for every discovered job.
C3_RemoteErrorIsLocal ==
  /\ \A f \in AllNames :
       reply[f].kind = "raise" =>
         /\ pc[f] = "done"
         /\ ~result[f].success
         /\ result[f].name = f
         /\ result[f].msg.len <= 200
  /\ (\E f \in AllNames : reply[f].kind = "raise") =>
       /\ exitStatus # 1
       /\ pcMain = "gather" => ENABLED Next
       /\ pcMain \in {"leave", "summary", "done"} =>
            \A g \in files_to_convert :
              /\ pc[g] = "done"
              /\ IsSkipped(result[g]) \/ IsConverted(result[g]) \/ ~result[g].success
              /\ result[g].name = g

C3_Witness ==
  /\ BatchOver
  /\ \E f, g \in files_to_convert :
       /\ reply[f].kind = "raise"
       /\ reply[f].error.len > 200
       /\ results[f].msg.len = 200
       /\ IsConverted(results[g])

\* C4: a job whose remote call returned an empty or absent markdown is
\* reported failed (neither skipped nor converted) and writes no file: its
\* output path holds a file only if another job of the same base name wrote it.
C4_EmptyResultFails ==
  \A f \in AllNames :
    (reply[f].kind = "result"
       /\ ("markdown" \notin DOMAIN reply[f] \/ reply[f].markdown = << >>)) =>
      /\ pc[f] = "done"
      /\ ~result[f].success
      /\ result[f].msg.text \notin {"Skipped (exists)", "Converted"}
      /\ wrote[f] = 0
      /\ (\A g \in files_to_convert : g # f => Stem(g) # Stem(f)) =>
           outfs[Stem(f)] = NoFile

C4_Witness ==
  /\ BatchOver
  /\ \E f, g \in files_to_convert :
       /\ reply[f] = [kind |-> "result", markdown |-> << >>]
       /\ reply[g] = [kind |-> "result"]
       /\ ~results[f].success /\ ~results[g].success
       /\ outfs[Stem(f)] = NoFile /\ outfs[Stem(g)] = NoFile

\* C5: after a first run in which every job was successful, the second run
\* over the same directories calls the remote service for no job, leaves the
\* output files unchanged, and every result of it is "Skipped (exists)".
C5_SecondRunSkipsAll ==
  (run = 2 /\ prevAllOk) =>
    /\ called = {}
    /\ Awaiting = {}
    /\ outfs = outfs0
    /\ \A f \in files_to_convert : pc[f] = "done" => IsSkipped(result[f])
    /\ BatchOver =>
         /\ \A f \in files_to_convert : IsSkipped(results[f])
         /\ summary.successful = summary.total
         /\ summary.failed = 0

C5_Witness ==
  /\ run = 2 /\ prevAllOk
  /\ BatchOver
  /\ Cardinality(files_to_convert) >= 2
  /\ \E f \in files_to_convert : outfs[Stem(f)] = <<"md">> \o f

\* C6: after a batch over an output directory that held no .md file, the
\* directory holds exactly one .md file per job whose result is "Converted",
\* named by that input's base name.
\* (stated for the runs in which no mkdir or write_text raised)
C6_OneFilePerConverted ==
  (/\ BatchOver
   /\ \A s \in AllStems : outfs0[s] = NoFile
   /\ \A f \in files_to_convert : results[f].msg.text # "OSError") =>
    /\ Cardinality(MdFiles) =
         Cardinality({ f \in files_to_convert : IsConverted(results[f]) })
    /\ MdFiles = { Stem(f) : f \in { g \in files_to_convert : IsConverted(results[g]) } }

\* C7: each job writes at most one file, and a file that exists in the
\* output directory is never deleted or given another content.
C7_NeverOverwrites ==
  /\ [](\A f \in AllNames : wrote[f] <= 1)
  /\ [][\A s \in AllStems : outfs[s] # NoFile => outfs'[s] = outfs[s]]_vars

\* the extension list of each format selector, as the specification gives it
SelectorExts(fmt) ==
  CASE fmt = "pdf"  -> {PdfExt}
    [] fmt = "epub" -> {EpubExt}
    [] fmt = "html" -> {HtmlExt, HtmExt}
    [] fmt = "all"  -> {PdfExt, EpubExt, HtmlExt, HtmExt}
Discovered == madeDirs /\ pcMain # "discover"

\* C8: discovery yields exactly the files of the input directory whose
\* extension, compared case-insensitively, is in the selector's list.
C8_DiscoveryIsCaseInsensitive ==
  Discovered =>
    files_to_convert = { n \in listing : Lower(Suffix(n)) \in SelectorExts(format) }

\* C9: the summary has one result per discovered file; Successful is the
\* number of converted plus skipped jobs, Failed the number of failed jobs,
\* Total the number of discovered files, and Successful + Failed = Total.
C9_SummaryAccounting ==
  BatchOver =>
    /\ DOMAIN results = files_to_convert
    /\ \A f \in files_to_convert : results[f].name = f /\ results[f] = result[f]
    /\ summary.successful =
         Cardinality({ f \in files_to_convert : results[f].msg.text = "Converted" })
         + Cardinality({ f \in files_to_convert : results[f].msg.text = "Skipped (exists)" })
    /\ summary.failed =
         Cardinality({ f \in files_to_convert :
                         results[f].msg.text \notin {"Converted", "Skipped (exists)"} })
    /\ summary.total = Cardinality(files_to_convert)
    /\ summary.successful + summary.failed = summary.total

C9_Witness ==
  /\ BatchOver
  /\ \E f, g, h \in files_to_convert :
       /\ IsConverted(results[f])
       /\ IsSkipped(results[g])
       /\ ~results[h].success
  /\ summary = [successful |-> 2, failed |-> 1, total |-> 3]

\* the key the program resolves: the first of the two variables that is set
\* to a non-empty value
ResolvedKey ==
  IF environ.DATALAB_API_KEY \notin {Unset, ""}
    THEN environ.DATALAB_API_KEY
    ELSE environ.MARKER_PDF_KEY
KeyMissing ==
  \/ environ.DATALAB_API_KEY = Unset /\ environ.MARKER_PDF_KEY = Unset
  \/ ResolvedKey = "your_api_key_here"

\* C10: with no key set, or with the placeholder as the resolved key, the
\* process exits with status 1 before it creates the output directory,
\* discovers files, opens the session or calls the service; a batch that
\* ran with failed jobs exits with status 0.
C10_ConfigErrorIsFatal ==
  /\ KeyMissing =>
       /\ pcMain \in {"start", "exit"}
       /\ pcMain = "exit" => exitStatus = 1
       /\ exitStatus \in {-1, 1}
       /\ ~madeDirs
       /\ files_to_convert = {}
       /\ opened = 0 /\ session = "none"
       /\ called = {}
  /\ (BatchOver /\ summary.failed > 0) => exitStatus = 0

C10_Witness ==
  /\ environ.DATALAB_API_KEY = "your_api_key_here"
  /\ environ.MARKER_PDF_KEY = "key"
  /\ pcMain = "exit"
  /\ exitStatus = 1
  /\ ~outdir

\* C11: in a run with discovered files the client session is opened once,
\* before any call of client.convert, and closed once, after every job has
\* its result; a call is in progress only while the session is open, none is
\* made once it is closed, and the summary comes after the session is closed.
C11_SessionLifecycle ==
  /\ opened <= 1 /\ closed <= opened
  /\ session = "none" <=> opened = 0
  /\ session = "open" <=> (opened = 1 /\ closed = 0)
  /\ session = "closed" <=> closed = 1
  /\ called # {} => opened = 1
  /\ Awaiting # {} => session = "open"
  /\ session = "closed" =>
       \A f \in files_to_convert :
         /\ pc[f] = "done"
         /\ IsSkipped(result[f]) \/ IsConverted(result[f]) \/ ~result[f].success
         /\ result[f].name = f
  /\ summary # NoSummary => session = "closed"
  /\ (pcMain = "done" /\ files_to_convert # {}) => (opened = 1 /\ closed = 1)

C11_Witness ==
  /\ BatchOver
  /\ opened = 1 /\ closed = 1 /\ session = "closed"
  /\ Cardinality(called) >= 2
  /\ \E f \in files_to_convert : IsSkipped(results[f])

SemaphoreExists ==
  \/ pcMain \in {"enter", "tasks", "gather", "leave", "summary"}
  \/ pcMain = "done" /\ files_to_convert # {}

\* C12: a job holds one permit from before its existence check and its
\* remote call until it returns, on every path; free permits plus permits
\* held by jobs are always 10, and all 10 are free once every job has its
\* result.
C12_PermitAccounting ==
  SemaphoreExists =>
    /\ semaphore >= 0
    /\ semaphore + Cardinality(Awaiting) = 10
    /\ \A f \in called : pc[f] \in {"awaiting", "done"}
    /\ \A f \in files_to_convert : pc[f] \in {"created", "waiting"} => f \notin called
    /\ (\A f \in files_to_convert : pc[f] = "done") => semaphore = 10

C12_Witness ==
  /\ pcMain = "gather"
  /\ semaphore = 10
  /\ Cardinality(files_to_convert) > 10
  /\ \A f \in files_to_convert : pc[f] = "done"
  /\ \E f, g, h, k \in files_to_convert :
       /\ IsConverted(result[f])
       /\ reply[g].kind = "raise"
       /\ reply[h] = [kind |-> "result", markdown |-> << >>]
       /\ result[k].msg.text = "OSError"

\* C13: with a fair event loop and a service that ends every call, every
\* discovered job, also one that has to wait for a permit, gets its result,
\* and the batch reaches the summary; a job that was started is not started
\* again, and a job with a result keeps it for the rest of the run.
C13_BatchTerminates ==
  /\ (pcMain = "gather") ~>
       (/\ pcMain = "done" /\ summary # NoSummary
        /\ \A f \in files_to_convert : pc[f] = "done" /\ results[f].name = f)
  /\ (Waiting # {}) ~> (Waiting = {})
  /\ [][\A f \in AllNames :
          run' = run =>
            /\ pc[f] = "awaiting" => pc'[f] \in {"awaiting", "done"}
            /\ pc[f] = "done" => (pc'[f] = "done" /\ result'[f] = result[f])
            /\ f \in called => f \in called']_vars

C13_Witness ==
  /\ BatchOver
  /\ Cardinality(files_to_convert) > 10
  /\ summary.total = Cardinality(files_to_convert)
  /\ summary.successful + summary.failed = summary.total
  /\ semaphore = 10

\* C14: a file the run has created or changed holds the complete Markdown
\* that the service returned for a job of that base name; a job writes only
\* with the text in hand; a failed job leaves no incomplete file at its
\* output path.
C14_NoPartialOutput ==
  /\ \A s \in AllStems :
       outfs[s] # outfs0[s] =>
         \E f \in files_to_convert :
           /\ Stem(f) = s
           /\ reply[f].kind = "result"
           /\ "markdown" \in DOMAIN reply[f]
           /\ outfs[s] = reply[f].markdown
  /\ \A f \in AllNames :
       wrote[f] > 0 => (reply[f].kind = "result" /\ "markdown" \in DOMAIN reply[f])
  /\ \A f \in files_to_convert :
       (pc[f] = "done" /\ ~result[f].success /\ outfs[Stem(f)] # NoFile) =>
         \E g \in files_to_convert :
           /\ Stem(g) = Stem(f)
           /\ IsConverted(result[g])
           /\ outfs[Stem(f)] = reply[g].markdown

NoMatch == { n \in listing : Lower(Suffix(n)) \in SelectorExts(format) } = {}

\* C15: when no file of the input directory matches the selector, the run
\* ends normally after discovery: exit status 0, the session never opened,
\* no remote call, no output file written, no summary.
C15_EmptyDiscovery ==
  (NoMatch /\ Discovered) =>
    /\ files_to_convert = {}
    /\ pcMain = "done"
    /\ exitStatus = 0
    /\ opened = 0 /\ session = "none"
    /\ called = {}
    /\ outfs = outfs0
    /\ \A f \in AllNames : wrote[f] = 0 /\ pc[f] = "none"
    /\ summary = NoSummary

C15_Witness ==
  /\ NoMatch /\ Discovered
  /\ listing # {}
  /\ pcMain = "done"
  /\ exitStatus = 0
  /\ summary = NoSummary
  /\ run = 2
====
